---- MODULE Spec2Model ----
(***************************************************************************)
(* Gas-alert call agent (src/ai_call_agent.py): the alert gate, the call   *)
(* lifecycle kept in call_state, the sensor reading kept in                *)
(* gas_reading_state, the telephony provider's view of the calls it was    *)
(* asked to place, and the per-connection media-stream session with the    *)
(* two client tools the conversational engine may invoke.                  *)
(*                                                                         *)
(* Every handler of the FastAPI application runs to completion on the      *)
(* event loop (the provider client is synchronous), so one handler is one  *)
(* atomic action.                                                          *)
(***************************************************************************)
EXTENDS Integers, Sequences, FiniteSets, TLC

(* ------------------------------ bounds -------------------------------- *)
\* value of time.time() when the process starts (any value >= 30 behaves alike)
BootTime == 100
\* how far the clock is followed after boot, in seconds
Horizon == 30
\* seconds between two observations of the clock in Spec
TickStep == 5
\* calls the provider holds at once (dispatched, not yet reported terminal)
MaxCalls == 2
\* media-stream connections open at once
MaxSessions == 1
\* largest sensor value pushed in SpecReading
MaxReading == 260
\* transcript entries followed per media-stream session in SpecSession
MaxLog == 3

MaxTime == BootTime + Horizon

(* -------------------------- program constants -------------------------- *)
ALERT_THRESHOLD == 100
ACK_WINDOW == 10
RETRY_COOLDOWN == 30
QUERY_VERY_SAFE_BELOW == 50
QUERY_SAFE_BELOW == 100
QUERY_WARNING_BELOW == 200
QUERY_IS_SAFE_BELOW == 100
TOOL_SAFE_BELOW == 100
TOOL_WARNING_BELOW == 200

TARGET_NUMBER == "+923442862596"

\* CallStatus values the status webhook may receive: the five terminal ones
\* the dispatch subscribes to, and two it does not recognise
TerminalStatuses == {"completed", "busy", "no-answer", "failed", "canceled"}
UnansweredStatuses == {"busy", "no-answer", "failed", "canceled"}
StatusValues == TerminalStatuses \cup {"ringing", "in-progress"}

\* readings the sensor pushes
PushValues == {99, 100, 250}
\* readings an alert trigger or an outbound-call request may carry, and a
\* call may so be set up with
CallReadings == {45, 250}
\* target numbers a direct /twilio/outbound_call request may carry
Numbers == {"", TARGET_NUMBER}

SessionIds == 1..MaxSessions
\* SpecSession follows two connections side by side
SessionPair == {1, 2}
\* who speaks in a transcript callback, and what the callback carries
Speakers == {"agent", "user"}
Transcripts == {"hello"}
CallStates == {"ringing", "in-progress", "ended"}
CallKinds == [st : CallStates, reading : CallReadings]

VARIABLES
    now,                \* time.time()
    call_state,         \* the global call_state dict
    gas_reading_state,  \* the global gas_reading_state dict (its
                        \* last_update_time is only copied into a response
                        \* and is left out)
    calls,              \* provider side: how many calls of each kind it holds
    session,            \* one handle_media_stream invocation per connection:
                        \* where it stands, the reading in its address
                        \* and its conversation_log
    resp,               \* what the last handler or tool returned, and the
                        \* provider request it made
    last_push           \* the value of the most recent sensor push (0: none)

vars == <<now, call_state, gas_reading_state, calls, session, resp, last_push>>

(* ------------------------------ responses ------------------------------ *)
Response(op) ==
    [op |-> op, status |-> "", reason |-> "", twilio |-> "none", arg |-> "",
     reading |-> -1, is_safe |-> FALSE, active |-> FALSE]

NoSession == [st |-> "Closed", reading |-> 0, log |-> <<>>]

(* ------------------------------- Init ---------------------------------- *)
Init ==
    /\ now = BootTime
    /\ call_state = [is_active |-> FALSE, last_call_time |-> 0,
                     last_success_time |-> 0]
    /\ gas_reading_state = [current_reading |-> 0, is_alert_active |-> FALSE]
    /\ calls = [k \in CallKinds |-> 0]
    /\ session = [s \in SessionIds |-> NoSession]
    /\ resp = Response("none")
    /\ last_push = 0

(* ------------------------------- clock --------------------------------- *)
Tick(d) ==
    /\ now + d <= MaxTime
    /\ now' = now + d
    /\ UNCHANGED <<call_state, gas_reading_state, calls, session, resp, last_push>>

(* --------------------------- sensor readings --------------------------- *)
\* update_reading with the threshold compared strictly
update_reading_strict(reading) ==
    /\ gas_reading_state' =
           [current_reading |-> reading,
            is_alert_active |-> (reading > ALERT_THRESHOLD)]
    /\ last_push' = reading
    /\ resp' = [Response("update_reading") EXCEPT
                    !.status = "updated", !.reading = reading]
    /\ UNCHANGED <<now, call_state, calls, session>>

\* POST /update-reading
update_reading(reading) ==
    /\ gas_reading_state' =
           [current_reading |-> reading,
            is_alert_active |-> (reading >= ALERT_THRESHOLD)]
    /\ last_push' = reading
    /\ resp' = [Response("update_reading") EXCEPT
                    !.status = "updated", !.reading = reading]
    /\ UNCHANGED <<now, call_state, calls, session>>

\* QueryTier with each tier closed at its upper end
QueryTierInclusive(reading) ==
    IF reading <= QUERY_VERY_SAFE_BELOW THEN "very_safe"
    ELSE IF reading <= QUERY_SAFE_BELOW THEN "safe"
    ELSE IF reading <= QUERY_WARNING_BELOW THEN "warning"
    ELSE "critical"

\* the status tier of GET /get-current-reading
QueryTier(reading) ==
    IF reading < QUERY_VERY_SAFE_BELOW THEN "very_safe"
    ELSE IF reading < QUERY_SAFE_BELOW THEN "safe"
    ELSE IF reading < QUERY_WARNING_BELOW THEN "warning"
    ELSE "critical"

\* GET /get-current-reading
get_current_reading ==
    LET reading == gas_reading_state.current_reading IN
    /\ resp' = [Response("get_current_reading") EXCEPT
                    !.reading = reading,
                    !.status = QueryTier(reading),
                    !.is_safe = (reading < QUERY_IS_SAFE_BELOW)]
    /\ UNCHANGED <<now, call_state, gas_reading_state, calls, session, last_push>>

(* ------------------------------ provider ------------------------------- *)
Kind(st, reading) == [st |-> st, reading |-> reading]

RECURSIVE CountIn(_, _)
CountIn(c, ks) ==
    IF ks = {} THEN 0
    ELSE LET k == CHOOSE x \in ks : TRUE IN c[k] + CountIn(c, ks \ {k})

\* calls dispatched to the provider and not yet reported terminal
Outstanding == CountIn(calls, CallKinds)

(* ---------------------------- call lifecycle --------------------------- *)
\* GET /check-call-status
check_call_status ==
    /\ resp' = [Response("check_call_status") EXCEPT
                    !.active = call_state.is_active]
    /\ UNCHANGED <<now, call_state, gas_reading_state, calls, session, last_push>>

\* make_outbound_call that leaves call_state alone when the provider raises
make_outbound_call_keeps_flag(caller, number, reading) ==
    IF number = ""
    THEN /\ resp' = [Response(caller) EXCEPT !.status = "http_400"]
         /\ UNCHANGED <<call_state, calls>>
    ELSE \/ /\ Outstanding < MaxCalls
            /\ calls' = [calls EXCEPT ![Kind("ringing", reading)] = @ + 1]
            /\ call_state' = [call_state EXCEPT
                                  !.is_active = TRUE,
                                  !.last_call_time = now]
            /\ resp' = [Response(caller) EXCEPT
                            !.status = "initiated",
                            !.twilio = "calls.create"]
         \/ /\ resp' = [Response(caller) EXCEPT
                            !.status = "http_500",
                            !.twilio = "calls.create"]
            /\ UNCHANGED <<call_state, calls>>

\* The body of make_outbound_call, run for POST /twilio/outbound_call and,
\* through trigger_gas_alert, for an allowed alert.  client.calls.create
\* either returns a call or raises.
make_outbound_call(caller, number, reading) ==
    IF number = ""
    THEN /\ resp' = [Response(caller) EXCEPT !.status = "http_400"]
         /\ UNCHANGED <<call_state, calls>>
    ELSE \/ /\ Outstanding < MaxCalls
            /\ calls' = [calls EXCEPT ![Kind("ringing", reading)] = @ + 1]
            /\ call_state' = [call_state EXCEPT
                                  !.is_active = TRUE,
                                  !.last_call_time = now]
            /\ resp' = [Response(caller) EXCEPT
                            !.status = "initiated",
                            !.twilio = "calls.create"]
         \/ /\ call_state' = [call_state EXCEPT !.is_active = FALSE]
            /\ resp' = [Response(caller) EXCEPT
                            !.status = "http_500",
                            !.twilio = "calls.create"]
            /\ UNCHANGED calls

\* POST /twilio/outbound_call
outbound_call_request(number, reading) ==
    /\ make_outbound_call("make_outbound_call", number, reading)
    /\ UNCHANGED <<now, gas_reading_state, session, last_push>>

\* AlertGate without its first check
AlertGateActiveUnchecked(cs, current_time) ==
    IF (current_time - cs.last_success_time) < ACK_WINDOW
         THEN "already_acknowledged"
    ELSE IF (current_time - cs.last_call_time) < RETRY_COOLDOWN
         THEN "cooldown_active"
    ELSE "allow"

\* AlertGate with the cooldown looked at before the acknowledgment window
AlertGateCooldownFirst(cs, current_time) ==
    IF cs.is_active THEN "call_in_progress"
    ELSE IF (current_time - cs.last_call_time) < RETRY_COOLDOWN
         THEN "cooldown_active"
    ELSE IF (current_time - cs.last_success_time) < ACK_WINDOW
         THEN "already_acknowledged"
    ELSE "allow"

\* The three checks of trigger_gas_alert, in the order the code makes them
AlertGate(cs, current_time) ==
    IF cs.is_active THEN "call_in_progress"
    ELSE IF (current_time - cs.last_success_time) < ACK_WINDOW
         THEN "already_acknowledged"
    ELSE IF (current_time - cs.last_call_time) < RETRY_COOLDOWN
         THEN "cooldown_active"
    ELSE "allow"

\* trigger_gas_alert that first looks at the sensor state and ignores the
\* alert when no alert is active there
trigger_gas_alert_unless_quiet(reading) ==
    LET decision == IF ~gas_reading_state.is_alert_active
                    THEN "no_alert_active"
                    ELSE AlertGate(call_state, now) IN
    /\ IF decision # "allow"
       THEN /\ resp' = [Response("trigger_gas_alert") EXCEPT
                            !.status = "ignored", !.reason = decision]
            /\ UNCHANGED <<call_state, calls>>
       ELSE make_outbound_call("trigger_gas_alert", TARGET_NUMBER, reading)
    /\ UNCHANGED <<now, gas_reading_state, session, last_push>>

\* GET /trigger-gas-alert
trigger_gas_alert(reading) ==
    LET decision == AlertGate(call_state, now) IN
    /\ IF decision # "allow"
       THEN /\ resp' = [Response("trigger_gas_alert") EXCEPT
                            !.status = "ignored", !.reason = decision]
            /\ UNCHANGED <<call_state, calls>>
       ELSE make_outbound_call("trigger_gas_alert", TARGET_NUMBER, reading)
    /\ UNCHANGED <<now, gas_reading_state, session, last_push>>

\* StatusReducer that clears the flag on "completed" but records no success
StatusReducerNoSuccessStamp(cs, call_status, current_time) ==
    IF call_status \in {"completed", "busy", "no-answer", "failed", "canceled"}
    THEN [cs EXCEPT !.is_active = FALSE]
    ELSE cs

\* StatusReducer that takes every terminal status for an acknowledgment
StatusReducerUnansweredAcknowledges(cs, call_status, current_time) ==
    IF call_status \in {"completed", "busy", "no-answer", "failed", "canceled"}
    THEN [cs EXCEPT !.last_success_time = current_time, !.is_active = FALSE]
    ELSE cs

\* StatusReducer that clears the flag on every status it is sent
StatusReducerAnyStatusClears(cs, call_status, current_time) ==
    IF call_status = "completed"
    THEN [cs EXCEPT !.last_success_time = current_time, !.is_active = FALSE]
    ELSE [cs EXCEPT !.is_active = FALSE]

\* The reducer of POST /twilio/call-status
StatusReducer(cs, call_status, current_time) ==
    IF call_status = "completed"
    THEN [cs EXCEPT !.last_success_time = current_time, !.is_active = FALSE]
    ELSE IF call_status \in {"busy", "no-answer", "failed", "canceled"}
    THEN [cs EXCEPT !.is_active = FALSE]
    ELSE cs

\* POST /twilio/call-status
call_status_webhook(call_status) ==
    /\ call_state' = StatusReducer(call_state, call_status, now)
    /\ resp' = [Response("call_status_webhook") EXCEPT
                    !.status = "ok", !.arg = call_status]
    /\ UNCHANGED <<now, gas_reading_state, session, last_push>>

\* The provider gives up on a call nobody answered and reports it
ProviderReportsUnanswered(reading, call_status) ==
    /\ calls[Kind("ringing", reading)] > 0
    /\ calls' = [calls EXCEPT ![Kind("ringing", reading)] = @ - 1]
    /\ call_status_webhook(call_status)

\* The provider reports a call that was answered and has ended
ProviderReportsCompleted(reading) ==
    /\ calls[Kind("ended", reading)] > 0
    /\ calls' = [calls EXCEPT ![Kind("ended", reading)] = @ - 1]
    /\ call_status_webhook("completed")

\* A status request that is tied to no call the provider still holds: a
\* duplicate or late delivery, or a CallStatus value the code does not know
StatusRedelivered(call_status) ==
    /\ call_status_webhook(call_status)
    /\ UNCHANGED calls

\* The callee hangs up an answered call
ProviderHangup(reading) ==
    /\ calls[Kind("in-progress", reading)] > 0
    /\ calls' = [calls EXCEPT ![Kind("in-progress", reading)] = @ - 1,
                              ![Kind("ended", reading)] = @ + 1]
    /\ UNCHANGED <<now, call_state, gas_reading_state, session, resp, last_push>>

\* calls.list(status="in-progress") followed by call.update(status="completed")
\* on the calls in updated: updated[r] of the in-progress calls set up with
\* reading r
EndCalls(c, updated) ==
    [k \in CallKinds |->
        IF k.st = "in-progress" THEN c[k] - updated[k.reading]
        ELSE IF k.st = "ended" THEN c[k] + updated[k.reading]
        ELSE c[k]]

AllInProgress == [r \in CallReadings |-> calls[Kind("in-progress", r)]]

\* GET /end-call
end_call ==
    /\ IF ~call_state.is_active
       THEN /\ resp' = [Response("end_call") EXCEPT
                            !.status = "ignored", !.reason = "no_active_call"]
            /\ UNCHANGED <<call_state, calls>>
       ELSE \/ /\ calls' = EndCalls(calls, AllInProgress)
               /\ call_state' = [call_state EXCEPT !.is_active = FALSE]
               /\ resp' = [Response("end_call") EXCEPT
                               !.status = "success", !.twilio = "calls.update"]
            \/ \E updated \in [CallReadings -> 0..MaxCalls] :
                  /\ \A r \in CallReadings : updated[r] <= AllInProgress[r]
                  /\ \/ updated # AllInProgress
                     \/ \A r \in CallReadings : AllInProgress[r] = 0
                  /\ calls' = EndCalls(calls, updated)
                  /\ resp' = [Response("end_call") EXCEPT
                                  !.status = "error", !.twilio = "calls.update"]
                  /\ UNCHANGED call_state
    /\ UNCHANGED <<now, gas_reading_state, session, last_push>>

(* ------------------------- media-stream session ------------------------ *)
\* POST /twilio/inbound_call: the callee answers, the provider asks for
\* instructions and is told to connect a media stream whose address carries
\* the reading the call was set up with; it then opens that connection
handle_incoming_call(s, reading) ==
    /\ calls[Kind("ringing", reading)] > 0
    /\ session[s].st = "Closed"
    /\ calls' = [calls EXCEPT ![Kind("ringing", reading)] = @ - 1,
                              ![Kind("in-progress", reading)] = @ + 1]
    /\ session' = [session EXCEPT
                       ![s] = [NoSession EXCEPT !.st = "Accepting",
                                                !.reading = reading]]
    /\ resp' = [Response("handle_incoming_call") EXCEPT
                    !.status = "twiml", !.reading = reading]
    /\ UNCHANGED <<now, call_state, gas_reading_state, last_push>>

\* a connection arrives at /media-stream-eleven/{name}/{lang}/{reading}
\* and is accepted; the endpoint asks for no call to go with it
media_stream_connect(s, reading) ==
    /\ session[s].st = "Closed"
    /\ session' = [session EXCEPT
                       ![s] = [NoSession EXCEPT !.st = "Accepting",
                                                !.reading = reading]]
    /\ UNCHANGED <<now, call_state, gas_reading_state, calls, resp, last_push>>

\* handle_media_stream up to the relay loop: accept the connection, build
\* the Conversation and start its session. An exception on the way leads
\* to the finally block: if the Conversation was built its end_session()
\* is called and the handler waits (Ending); if it was not, the name
\* conversation is unbound there, the NameError is caught and the handler
\* returns at once
start_session(s) ==
    /\ session[s].st = "Accepting"
    /\ \E constructed, started \in BOOLEAN :
          session' = [session EXCEPT
                          ![s] = IF constructed /\ started
                                 THEN [@ EXCEPT !.st = "Active"]
                                 ELSE IF constructed
                                 THEN [@ EXCEPT !.st = "Ending"]
                                 ELSE NoSession]
    /\ UNCHANGED <<now, call_state, gas_reading_state, calls, resp, last_push>>

\* transcript_callback that puts the new entry in front of the log
transcript_callback_prepend(s, speaker, text) ==
    /\ session[s].st = "Active"
    /\ Len(session[s].log) < MaxLog
    /\ session' = [session EXCEPT
                       ![s].log = <<[speaker |-> speaker,
                                     message |-> text]>> \o @]
    /\ UNCHANGED <<now, call_state, gas_reading_state, calls, resp, last_push>>

\* on_agent_response / on_user_transcript, called by the engine of session
\* s with a text: one entry is appended to the conversation_log of s
transcript_callback(s, speaker, text) ==
    /\ session[s].st = "Active"
    /\ Len(session[s].log) < MaxLog
    /\ session' = [session EXCEPT
                       ![s].log = Append(@, [speaker |-> speaker,
                                             message |-> text])]
    /\ UNCHANGED <<now, call_state, gas_reading_state, calls, resp, last_push>>

\* one pass of the relay loop: a frame arrives and is handed to
\* audio_interface.handle_twilio_message; the try block encloses the whole
\* loop, so an exception raised for one frame leaves the loop for the
\* finally block
relay_frame(s, relayed) ==
    /\ session[s].st = "Active"
    /\ IF relayed
       THEN UNCHANGED session
       ELSE session' = [session EXCEPT ![s].st = "Ending"]
    /\ UNCHANGED <<now, call_state, gas_reading_state, calls, resp, last_push>>

\* ToolTier with its first threshold at the query's very_safe bound
ToolTierLow(reading) ==
    IF reading < QUERY_VERY_SAFE_BELOW THEN "SAFE"
    ELSE IF reading < TOOL_WARNING_BELOW THEN "WARNING"
    ELSE "CRITICAL"

\* the tier named in the message of the getCurrentGasReading tool
ToolTier(reading) ==
    IF reading < TOOL_SAFE_BELOW THEN "SAFE"
    ELSE IF reading < TOOL_WARNING_BELOW THEN "WARNING"
    ELSE "CRITICAL"

\* ToolReading taken from the address the media stream was opened with
ToolReadingAtSetup(s) == session[s].reading

\* the reading the getCurrentGasReading tool reports in session s
ToolReading(s) == gas_reading_state.current_reading

\* client tool getCurrentGasReading, invoked by the engine of session s
get_current_gas_reading_tool(s) ==
    /\ session[s].st = "Active"
    /\ resp' = [Response("getCurrentGasReading") EXCEPT
                    !.reading = ToolReading(s),
                    !.status = ToolTier(ToolReading(s))]
    /\ UNCHANGED <<now, call_state, gas_reading_state, calls, session, last_push>>

\* client tool terminateCall, invoked by the engine of session s: it
\* returns its message and does nothing else
terminate_call_tool(s) ==
    /\ session[s].st = "Active"
    /\ resp' = [Response("terminateCall") EXCEPT !.status = "Ending call now. Goodbye."]
    /\ UNCHANGED <<now, call_state, gas_reading_state, calls, session, last_push>>

\* the relay loop of handle_media_stream ends (the connection is closed or
\* lost) and the finally block asks the engine session to end
media_stream_disconnect(s) ==
    /\ session[s].st = "Active"
    /\ session' = [session EXCEPT ![s].st = "Ending"]
    /\ UNCHANGED <<now, call_state, gas_reading_state, calls, resp, last_push>>

\* wait_for_session_end returns (or end_session raised) and the handler
\* returns: the connection is released and the conversation_log is gone
session_ended(s) ==
    /\ session[s].st = "Ending"
    /\ session' = [session EXCEPT ![s] = NoSession]
    /\ UNCHANGED <<now, call_state, gas_reading_state, calls, resp, last_push>>

(* ---------------------------- specifications --------------------------- *)
\* the steps of the provider and of the media-stream sessions
ProviderAndSessionSteps(readings) ==
    \/ \E reading \in readings, call_status \in UnansweredStatuses :
          ProviderReportsUnanswered(reading, call_status)
    \/ \E reading \in readings : ProviderReportsCompleted(reading)
    \/ \E call_status \in StatusValues : StatusRedelivered(call_status)
    \/ \E reading \in readings : ProviderHangup(reading)
    \/ \E s \in SessionIds, reading \in readings :
          handle_incoming_call(s, reading)
    \/ \E s \in SessionIds : start_session(s)
    \/ \E s \in SessionIds : get_current_gas_reading_tool(s)
    \/ \E s \in SessionIds : terminate_call_tool(s)
    \/ \E s \in SessionIds, relayed \in BOOLEAN : relay_frame(s, relayed)
    \/ \E s \in SessionIds : media_stream_disconnect(s)
    \/ \E s \in SessionIds : session_ended(s)

\* Spec follows the clock: every request, the provider and the sessions,
\* with the calls set up with one reading
SpecReadings == {45}
SpecPushValues == {100}

Next ==
    \/ Tick(TickStep)
    \/ \E reading \in SpecPushValues : update_reading(reading)
    \/ \E number \in Numbers, reading \in SpecReadings :
          outbound_call_request(number, reading)
    \/ \E reading \in SpecReadings : trigger_gas_alert(reading)
    \/ end_call
    \/ ProviderAndSessionSteps(SpecReadings)

Spec == Init /\ [][Next]_vars

\* SpecBurst holds the clock at its boot value: the same requests, provider
\* and sessions within one instant, with every reading
NextBurst ==
    \/ \E reading \in PushValues : update_reading(reading)
    \/ \E number \in Numbers, reading \in CallReadings :
          outbound_call_request(number, reading)
    \/ \E reading \in CallReadings : trigger_gas_alert(reading)
    \/ end_call
    \/ ProviderAndSessionSteps(CallReadings)

SpecBurst == Init /\ [][NextBurst]_vars

\* SpecReading: the sensor pushes any reading up to MaxReading and the read
\* requests answer
NextReading ==
    \/ \E reading \in 0..MaxReading : update_reading(reading)
    \/ get_current_reading
    \/ check_call_status

SpecReading == Init /\ [][NextReading]_vars

\* SpecTiers: the sensor pushes any reading up to MaxReading, and the
\* reading query and the getCurrentGasReading tool of a session report it
NextTiers ==
    \/ \E reading \in 0..MaxReading : update_reading(reading)
    \/ get_current_reading
    \/ \E s \in SessionIds, reading \in SpecReadings :
          media_stream_connect(s, reading)
    \/ \E s \in SessionIds : start_session(s)
    \/ \E s \in SessionIds : get_current_gas_reading_tool(s)

SpecTiers == Init /\ [][NextTiers]_vars

\* SpecSession: two media-stream connections from accept to release, with
\* the engine's transcript callbacks. What the handler does by itself
\* happens (it goes on from accept to the session start); whether frames,
\* callbacks, a disconnect or the engine's end of session arrive is up to
\* the peers.
InitSession ==
    /\ now = BootTime
    /\ call_state = [is_active |-> FALSE, last_call_time |-> 0,
                     last_success_time |-> 0]
    /\ gas_reading_state = [current_reading |-> 0, is_alert_active |-> FALSE]
    /\ calls = [k \in CallKinds |-> 0]
    /\ session = [s \in SessionPair |-> NoSession]
    /\ resp = Response("none")
    /\ last_push = 0

NextSession ==
    \/ \E s \in SessionPair, reading \in SpecReadings :
          media_stream_connect(s, reading)
    \/ \E s \in SessionPair : start_session(s)
    \/ \E s \in SessionPair, speaker \in Speakers, text \in Transcripts :
          transcript_callback(s, speaker, text)
    \/ \E s \in SessionPair, relayed \in BOOLEAN : relay_frame(s, relayed)
    \/ \E s \in SessionPair : media_stream_disconnect(s)
    \/ \E s \in SessionPair : session_ended(s)

SpecSession ==
    /\ InitSession
    /\ [][NextSession]_vars
    /\ WF_vars(\E s \in SessionPair : start_session(s))

(* ------------------------------- claims -------------------------------- *)
\* the decision a response of trigger_gas_alert stands for
DecisionOf(r) == IF r.status = "ignored" THEN r.reason ELSE "allow"

Ignored(reason) ==
    [Response("trigger_gas_alert") EXCEPT !.status = "ignored", !.reason = reason]

\* C1: at most one outbound call is outstanding (dispatched to the provider
\* and not yet reported terminal) in every reachable state.
C1_SingleCallSlot == Outstanding <= 1

\* C2: while call_state.is_active is true an alert trigger answers
\* {status: ignored, reason: call_in_progress}, whatever the clock and the
\* two timestamps are, and it neither asks the provider for a call nor
\* changes call_state.
C2_ActiveTriggerIgnored ==
    [][\A reading \in CallReadings :
          (call_state.is_active /\ trigger_gas_alert(reading)) =>
              /\ resp' = Ignored("call_in_progress")
              /\ calls' = calls
              /\ call_state' = call_state]_vars

\* a trigger was ignored for a call in progress although the
\* acknowledgment window was open as well
C2_Witness ==
    /\ resp = Ignored("call_in_progress")
    /\ call_state.is_active
    /\ now - call_state.last_success_time < ACK_WINDOW

C4_FailedAttemptStartsCooldown ==
    [][\A reading \in CallReadings :
          (trigger_gas_alert(reading) /\ resp'.status = "http_500") =>
              \A t \in now..(MaxTime + RETRY_COOLDOWN) :
                 AlertGate(call_state', t) =
                     IF t - now < RETRY_COOLDOWN THEN "cooldown_active"
                     ELSE "allow"]_vars

\* C5: a terminal status event delivered a second time, with no other
\* request in between and possibly at a later clock value, leaves
\* call_state as the first delivery left it.
C5_StatusReducerIdempotent ==
    [][\A call_status \in TerminalStatuses :
          (/\ resp.op = "call_status_webhook"
           /\ resp.arg = call_status
           /\ call_status_webhook(call_status)) =>
              call_state' = call_state]_vars

\* C6: in every reachable state current_reading is the value of the most
\* recent sensor push (0 before any push) and is_alert_active is exactly
\* current_reading >= 100.
C6_ReadingStateTracksPush ==
    /\ gas_reading_state.current_reading = last_push
    /\ gas_reading_state.is_alert_active = (gas_reading_state.current_reading >= 100)

\* the threshold value itself was pushed and another request ran afterwards
C6_Witness ==
    /\ last_push = 100
    /\ gas_reading_state.is_alert_active
    /\ resp.op = "trigger_gas_alert"
    /\ call_state.is_active

\* C7: the answer of an alert trigger is the value of a function of
\* (is_active, last_call_time, last_success_time) and the clock alone:
\* whatever the sensor state, the reading sent along, the earlier requests
\* and the sessions are, the decision and its reason are
\* AlertGate(call_state, now).
C7_GateDependsOnSnapshotOnly ==
    [][\A reading \in CallReadings :
          trigger_gas_alert(reading) =>
              DecisionOf(resp') = AlertGate(call_state, now)]_vars

\* a trigger was decided while the sensor state and a session were far
\* from their initial values
C7_Witness ==
    /\ resp = Ignored("cooldown_active")
    /\ gas_reading_state.current_reading = 250
    /\ \E s \in SessionIds : session[s].st = "Active" /\ session[s].reading = 45

\* C8: the reading query reports the last pushed reading r with the tier
\* very_safe for r < 50, safe for 50 <= r < 100, warning for 100 <= r < 200
\* and critical for r >= 200, and is_safe exactly for very_safe and safe;
\* 45 gives very_safe and is_safe, 120 warning and not is_safe, 250 critical.
C8_QueryTiers ==
    resp.op = "get_current_reading" =>
        LET r == resp.reading IN
        /\ r = last_push
        /\ resp.status = (CASE r < 50 -> "very_safe"
                            [] r >= 50 /\ r < 100 -> "safe"
                            [] r >= 100 /\ r < 200 -> "warning"
                            [] r >= 200 -> "critical")
        /\ resp.is_safe = (resp.status \in {"very_safe", "safe"})
        /\ (r = 45 => resp.status = "very_safe" /\ resp.is_safe)
        /\ (r = 120 => resp.status = "warning" /\ ~resp.is_safe)
        /\ (r = 250 => resp.status = "critical")

\* 120 was pushed and the query answered warning, not safe
C8_Witness ==
    /\ resp.op = "get_current_reading"
    /\ resp.reading = 120
    /\ resp.status = "warning"
    /\ ~resp.is_safe

\* C9: what the getCurrentGasReading tool reports is the reading of the
\* most recent sensor push at the moment it is invoked, not the reading the
\* session was set up with.
C9_ToolReportsLiveReading ==
    resp.op = "getCurrentGasReading" =>
        /\ resp.reading = last_push
        /\ resp.reading = gas_reading_state.current_reading

\* the tool answered in a session set up with another reading than the
\* one it reported
C9_Witness ==
    /\ resp.op = "getCurrentGasReading"
    /\ resp.reading = 100
    /\ \E s \in SessionIds : session[s].st = "Active" /\ session[s].reading = 45

\* C10: when the engine invokes terminateCall in an Active session, the
\* provider is asked to end the call and the session leaves Active for
\* Ending.
C10_TerminateEndsCall ==
    [][\A s \in SessionIds :
          terminate_call_tool(s) =>
              /\ resp'.twilio # "none"
              /\ session'[s].st = "Ending"]_vars

\* C11: every media-stream session that reaches Ending eventually reaches
\* Closed, whatever brought it to Ending and even if the engine never
\* acknowledges the request to end its session.
C11_EndingReachesClosed ==
    \A s \in SessionPair :
        (session[s].st = "Ending") ~> (session[s].st = "Closed")

\* C12: an alert trigger is decided by three rules in a fixed order, the
\* first that matches giving the reason: call_in_progress whenever is_active
\* is set; else already_acknowledged whenever now - last_success_time is
\* inside the acknowledgment window, also when the cooldown would match as
\* well; else cooldown_active whenever now - last_call_time is inside the
\* retry cooldown; and a call is asked of the provider exactly when none of
\* the three holds.
C12_GateOrder ==
    [][\A reading \in CallReadings :
          trigger_gas_alert(reading) =>
              LET active == call_state.is_active
                  acked == now - call_state.last_success_time < ACK_WINDOW
                  cooling == now - call_state.last_call_time < RETRY_COOLDOWN
              IN  /\ active => resp' = Ignored("call_in_progress")
                  /\ (~active /\ acked) => resp' = Ignored("already_acknowledged")
                  /\ (~active /\ ~acked /\ cooling) =>
                        resp' = Ignored("cooldown_active")
                  /\ (resp'.twilio = "calls.create") <=>
                        ~(active \/ acked \/ cooling)
                  /\ (calls' # calls) => resp'.twilio = "calls.create"]_vars

\* a trigger was ignored as already acknowledged while the retry cooldown
\* of the acknowledged call was still running
C12_Witness ==
    /\ resp = Ignored("already_acknowledged")
    /\ ~call_state.is_active
    /\ call_state.last_call_time >= BootTime
    /\ now - call_state.last_call_time < RETRY_COOLDOWN
    /\ now - call_state.last_success_time < ACK_WINDOW

\* C13: a status event busy, no-answer, failed or canceled clears is_active
\* and leaves last_success_time and last_call_time as they were; a trigger
\* that follows it, at whatever later time and with no other request in
\* between, is ignored as already_acknowledged only inside the window of an
\* earlier completed call, and asks the provider for a call whenever the
\* retry cooldown counted from last_call_time and that earlier window are
\* past.
C13_UnansweredOnlyClearsActive ==
    /\ [][\A call_status \in UnansweredStatuses :
             (resp'.arg = call_status /\ call_status_webhook(call_status)) =>
                 call_state' = [call_state EXCEPT !.is_active = FALSE]]_vars
    /\ [][\A reading \in CallReadings :
             (/\ resp.op = "call_status_webhook"
              /\ resp.arg \in UnansweredStatuses
              /\ trigger_gas_alert(reading)) =>
                 /\ (DecisionOf(resp') = "already_acknowledged") =>
                       now - call_state.last_success_time < ACK_WINDOW
                 /\ (/\ now - call_state.last_call_time >= RETRY_COOLDOWN
                     /\ now - call_state.last_success_time >= ACK_WINDOW) =>
                       resp'.twilio = "calls.create"]_vars

\* the only call dispatched since boot was reported no-answer and its
\* retry cooldown has run out: nothing stands in the way of the next alert
C13_Witness ==
    /\ resp.op = "call_status_webhook"
    /\ resp.arg = "no-answer"
    /\ ~call_state.is_active
    /\ call_state.last_success_time = 0
    /\ call_state.last_call_time >= BootTime
    /\ now - call_state.last_call_time >= RETRY_COOLDOWN
    /\ Outstanding = 0

\* C14: a terminal status event applied while is_active is false changes
\* none of the three fields of call_state.
C14_StatusWhileInactiveIsNoOp ==
    [][\A call_status \in TerminalStatuses :
          (~call_state.is_active /\ call_status_webhook(call_status)) =>
              call_state' = call_state]_vars

\* calls the provider still rings or holds answered
Live(c) == CountIn(c, {k \in CallKinds : k.st # "ended"})

\* C15: a dispatch the provider accepts sets is_active and sets
\* last_call_time to the time of the dispatch; a dispatch the provider
\* rejects ends with is_active false, an error answer, both timestamps as
\* they were and no further request to the provider; an empty target number
\* is refused before any provider request and leaves call_state as it was;
\* and a call only ever comes to exist through an accepted dispatch of one
\* of the two requests.
C15_DispatchOutcome ==
    /\ [][\A number \in Numbers, reading \in CallReadings :
             (\/ /\ resp'.op = "make_outbound_call"
                 /\ outbound_call_request(number, reading)
              \/ /\ resp'.op = "trigger_gas_alert"
                 /\ resp'.status # "ignored"
                 /\ number = TARGET_NUMBER
                 /\ trigger_gas_alert(reading)) =>
                 /\ (number = "") =>
                       /\ resp'.status = "http_400"
                       /\ resp'.twilio = "none"
                       /\ call_state' = call_state
                       /\ calls' = calls
                 /\ (number # "") => resp'.status \in {"initiated", "http_500"}
                 /\ (resp'.status = "initiated") =>
                       /\ call_state' = [call_state EXCEPT
                                             !.is_active = TRUE,
                                             !.last_call_time = now]
                       /\ calls' = [calls EXCEPT
                                       ![Kind("ringing", reading)] = @ + 1]
                 /\ (resp'.status = "http_500") =>
                       /\ call_state' = [call_state EXCEPT !.is_active = FALSE]
                       /\ calls' = calls]_vars
    /\ [][\A reading \in CallReadings :
             (calls'[Kind("ringing", reading)] > calls[Kind("ringing", reading)]) =>
                 /\ resp'.op \in {"make_outbound_call", "trigger_gas_alert"}
                 /\ resp'.status = "initiated"
                 /\ calls' = [calls EXCEPT
                                 ![Kind("ringing", reading)] = @ + 1]]_vars

\* the provider rejected a dispatch while an earlier call was outstanding
\* and the flag was cleared
C15_Witness ==
    /\ resp.op = "make_outbound_call"
    /\ resp.status = "http_500"
    /\ ~call_state.is_active
    /\ call_state.last_call_time >= BootTime
    /\ Outstanding >= 1

\* C16: when relaying one inbound frame raises in an Active session, the
\* session is Active afterwards.
C16_FrameErrorKeepsSession ==
    [][\A s \in SessionPair :
          relay_frame(s, FALSE) => session'[s].st = "Active"]_vars

\* C17: GET /end-call with is_active set and no error leaves no dispatched
\* call ringing or answered at the provider and clears is_active; with
\* is_active clear it answers ignored/no_active_call, makes no provider
\* request and changes nothing; when the provider raises it answers with an
\* error and leaves is_active as it was; the two timestamps never change.
C17_EndCall ==
    [][end_call =>
          /\ call_state'.last_call_time = call_state.last_call_time
          /\ call_state'.last_success_time = call_state.last_success_time
          /\ ~call_state.is_active =>
                /\ resp'.status = "ignored"
                /\ resp'.reason = "no_active_call"
                /\ resp'.twilio = "none"
                /\ call_state' = call_state
                /\ calls' = calls
          /\ call_state.is_active =>
                /\ resp'.twilio # "none"
                /\ resp'.status \in {"success", "error"}
                /\ (resp'.status = "error") => call_state'.is_active
                /\ (resp'.status = "success") =>
                      /\ ~call_state'.is_active
                      /\ Live(calls') = 0]_vars

\* C18: the conversation_log of a session only grows at its end, by the
\* entry (speaker, text) of the callback that fired, for as long as the
\* session lives, and a callback of one session leaves the log of every
\* other session as it was.
C18_TranscriptAppendOnly ==
    [][\A s \in SessionPair :
          /\ \A speaker \in Speakers, text \in Transcripts :
                transcript_callback(s, speaker, text) =>
                    /\ session'[s].log =
                           Append(session[s].log,
                                  [speaker |-> speaker, message |-> text])
                    /\ \A o \in SessionPair \ {s} :
                           session'[o].log = session[o].log
          /\ (session'[s].log # session[s].log) =>
                \/ session'[s].st = "Closed"
                \/ \E speaker \in Speakers, text \in Transcripts :
                      /\ transcript_callback(s, speaker, text)
                      /\ SubSeq(session'[s].log, 1, Len(session[s].log)) =
                             session[s].log]_vars

\* two sessions are Active, each with the entries of its own callbacks in
\* the order they fired
C18_Witness ==
    /\ session[1].st = "Active"
    /\ session[2].st = "Active"
    /\ session[1].log = <<[speaker |-> "agent", message |-> "hello"],
                          [speaker |-> "user", message |-> "hello"],
                          [speaker |-> "agent", message |-> "hello"]>>
    /\ session[2].log = <<[speaker |-> "user", message |-> "hello"]>>

\* the tool tier a query tier belongs to
ToolTierOf(status) ==
    CASE status \in {"very_safe", "safe"} -> "SAFE"
      [] status = "warning" -> "WARNING"
      [] status = "critical" -> "CRITICAL"

\* the tier differs between reading - 1 and reading
TierChangesAt(tier(_), reading) == tier(reading) # tier(reading - 1)

C20_ActiveClearedOnlyByEvents ==
    /\ [][(call_state.is_active /\ ~call_state'.is_active) =>
             \/ \E call_status \in TerminalStatuses :
                   call_status_webhook(call_status)
             \/ end_call /\ resp'.status = "success"
             \/ \E number \in Numbers, reading \in CallReadings :
                   /\ outbound_call_request(number, reading)
                   /\ resp'.status = "http_500"]_vars
    /\ [][\A reading \in CallReadings :
             (call_state.is_active /\ trigger_gas_alert(reading)) =>
                 /\ DecisionOf(resp') = "call_in_progress"
                 /\ call_state'.is_active
                 /\ calls' = calls]_vars

\* the flag has been set for the whole retry cooldown of its call, the
\* acknowledgment window is closed, and a trigger was still ignored
C20_Witness ==
    /\ resp = Ignored("call_in_progress")
    /\ call_state.is_active
    /\ call_state.last_call_time >= BootTime
    /\ now - call_state.last_call_time >= RETRY_COOLDOWN
    /\ now - call_state.last_success_time >= ACK_WINDOW

====
